---- MODULE Spec2Model ----
(***************************************************************************)
(* fireorm: an object-document mapper over Firestore.                      *)
(*                                                                         *)
(* The model covers the orchestrator (DB, src/db.go), the connection       *)
(* holder (Connection, src/connection.go), the query specification         *)
(* (src/query.go) and the record helpers (SetIDField, StructToMap).        *)
(* The Firestore client is the external collaborator: the store is a map   *)
(* collection -> document id -> field map, a transaction is a buffer of    *)
(* writes applied on commit, a query is filters + orders + limit + cursor. *)
(*                                                                         *)
(* Representation.  A document identifier is a natural number: 0 stands    *)
(* for Go's empty string "" and identifiers compare as Firestore compares  *)
(* document names.  "nil" stands for a nil pointer / nil error / nil       *)
(* reflect.Type.                                                           *)
(***************************************************************************)
EXTENDS Integers, Sequences, FiniteSets, TLC

VARIABLES
    store,      \* collection name -> [document id -> field map]
    tx,         \* the caller's firestore transaction: [active, writes]
    pc,         \* position of the caller: "idle", or in the Update loop
    op,         \* the handler called last (or running)
    ret,        \* its returned error ("nil" = success, "pending" while it runs)
    ext,        \* external calls the handler has made so far
    recv,       \* the orchestrator the handler was called on
    arg,        \* the arguments it was called with
    rec,        \* the caller's record as the handler left it
    dest,       \* the caller's destination slice (FindAll)
    call,       \* locals of a running by-query Update: db, updates, q
    lastDoc,    \* cursor of the by-query Update loop
    docs,       \* page fetched by the by-query Update loop
    commits,    \* history: the batches committed by the running/last Update
    iters,      \* history: loop iterations started by the running/last Update
    matched0,   \* history: documents matching the where-spec when Update began
    dbs,        \* heap of DB instances: pointer -> dbOptions (conn is a pointer)
    conns,      \* heap of Connection instances: pointer -> [client, transaction]
    cpc,        \* per concurrent caller: position in its binding call
    cop,        \* per concurrent caller: the binding call it runs (or ran last)
    cnew,       \* per concurrent caller: newInstance of the running call
    held,       \* per concurrent caller: the instances returned to it
    supplied,   \* per concurrent caller: the models it has passed to Model
    setters     \* history: calls of SetConnection, SetTransaction, SetClient

vars == <<store, tx, pc, op, recv, arg, ret, ext, rec, dest, call, lastDoc, docs,
          commits, iters, matched0, dbs, conns, cpc, cop, cnew, held, supplied,
          setters>>

loopVars == <<call, lastDoc, docs, commits, iters, matched0>>

crudVars == <<store, tx, pc, op, recv, arg, ret, ext, rec, dest, loopVars>>

bindVars == <<dbs, conns, cpc, cop, cnew, held, supplied, setters>>

-----------------------------------------------------------------------------
(* Values *)

Nil == "nil"

\* A nil pointer to a struct (snapshot, value provider).
NilPtr == [nil |-> TRUE]

EmptyID == 0

\* New(): updateBatchSize: 100
DefaultUpdateBatchSize == 100

QueryLimitUnlimited == -1

\* A firestore query on which Limit was never called.
NoLimit == QueryLimitUnlimited

\* firestore.Asc / firestore.Desc
Asc == "asc"
Desc == "desc"

DocumentID == "__name__"

\* Record types: User (tests: ID tagged "-"), Example (example program: ID
\* tagged "id") and the User of the README, which defines CollectionName().
ModelTypes == {"User", "Example", "README.User"}

\* reflect.Type.Name()
TypeName(t) == IF t = "Example" THEN "Example" ELSE "User"

\* The firestore tag of the type's ID field.
IDTag(t) == IF t = "Example" THEN "id" ELSE "-"

\* What the type's method CollectionName() string returns; nil for a type
\* without such a method.
CollectionNameMethod(t) ==
    IF t = "README.User" THEN "custom-collection-name" ELSE Nil

Min(a, b) == IF a < b THEN a ELSE b

-----------------------------------------------------------------------------
(* Record adapter: GetID, SetIDField, StructToMap *)

\* A record is [type, ptr, ID, f]: f holds the tagged fields other than ID
\* (Name and Age; Email behaves as Name and is left out), ptr tells whether
\* the caller passed a pointer to its struct or a copy of it.
GetID(model) == model.ID

\* (variant: the identifier is never injected)
SetIDField_Noop(model, id) == model

\* field.CanSet(): only a struct reached through a pointer can be set.
SetIDField(model, id) == IF model.ptr THEN [model EXCEPT !.ID = id] ELSE model

\* One entry per field whose firestore tag is neither "" nor "-".
StructToMap(model) ==
    IF IDTag(model.type) \in {"", "-"}
    THEN model.f
    ELSE [k \in DOMAIN model.f \cup {IDTag(model.type)} |->
            IF k = IDTag(model.type) THEN model.ID ELSE model.f[k]]

-----------------------------------------------------------------------------
(* Connection *)

NewConnection(client, transaction) ==
    [client |-> client, transaction |-> transaction]

HasTransaction(conn) == conn.transaction # Nil

-----------------------------------------------------------------------------
(* Orchestrator options (dbOptions) *)

New(conn) ==
    [conn |-> conn, modelType |-> Nil, modelVal |-> Nil,
     updateBatchSize |-> DefaultUpdateBatchSize]

\* Model(): a copy of the options with the model type rebound; modelVal is
\* reflect.New(t), a pointer to a zero value of the type, held as the type.
Model(db, t) == [db EXCEPT !.modelType = t, !.modelVal = t]

GetUpdateBatchSize(db) == db.updateBatchSize

\* WithTransaction(): a copy of the options on a new connection that shares
\* the client and carries the transaction.
WithTransaction(db, t) ==
    [db EXCEPT !.conn = NewConnection(db.conn.client, t)]

\* strings.ToLower
ToLower(name) == IF name = "Example" THEN "example" ELSE "user"

\* The collection of the bound model: what its CollectionName method
\* returns, else the lowercased type name + "s"; nil when no model is bound.
CollectionName(db) ==
    IF db.modelType = Nil THEN Nil
    ELSE IF CollectionNameMethod(db.modelVal) # Nil
    THEN CollectionNameMethod(db.modelVal)
    ELSE ToLower(TypeName(db.modelType)) \o "s"

Collections == {"users", "examples", "custom-collection-name"}

-----------------------------------------------------------------------------
(* Firestore queries (external): filters, orders, limit, cursor *)

\* The operators Firestore knows.
Operators ==
    {"==", "!=", "<", "<=", ">", ">=", "in", "not-in", "array-contains",
     "array-contains-any"}

\* Collection(colName).Query; err is the error the query carries to the call
\* that runs it.
CollectionQuery(colName) ==
    [col |-> colName, filters |-> <<>>, orders |-> <<>>, limit |-> NoLimit,
     startAfter |-> NilPtr, err |-> Nil]

\* q.Where accepts any operator string; an operator Firestore does not know
\* leaves an error in the query.
Where(q, field, operator, value) ==
    [q EXCEPT !.filters =
        Append(@, [Field |-> field, Operator |-> operator, Value |-> value]),
              !.err = IF @ = Nil /\ operator \notin Operators
                      THEN "invalid operator" ELSE @]

OrderBy(q, field, direction) ==
    [q EXCEPT !.orders = Append(@, [Field |-> field, Direction |-> direction])]

\* A later Limit replaces an earlier one.
Limit(q, n) == [q EXCEPT !.limit = n]

StartAfter(q, snapshot) == [q EXCEPT !.startAfter = snapshot]

\* The time the store gives the first commit of a call. The field age holds
\* a number or a timestamp; a timestamp is held as a number from
\* EarlierCommitTime on, so that it orders after every number.
FirstCommitTime == 1000

\* The time of a commit made before the call.
EarlierCommitTime == FirstCommitTime - 1

IsTimestamp(field, v) == field = "age" /\ v >= EarlierCommitTime

\* The field tags holds an array.
IsArray(field) == field = "tags"

\* A filter compares its value only with field values of its own type.
SameType(field, a, b) == IsTimestamp(field, a) = IsTimestamp(field, b)

\* Whether a document with the fields data passes filter f, whose operator
\* is one of Operators; a document without the field passes no filter. The
\* Value of in, not-in and array-contains-any is an array, and only an
\* array field passes array-contains and array-contains-any.
Matches(data, f) ==
    IF f.Field \notin DOMAIN data THEN FALSE
    ELSE LET v == data[f.Field] IN
    CASE f.Operator = "==" -> SameType(f.Field, v, f.Value) /\ v = f.Value
      [] f.Operator = ">" -> SameType(f.Field, v, f.Value) /\ v > f.Value
      [] f.Operator = ">=" -> SameType(f.Field, v, f.Value) /\ v >= f.Value
      [] f.Operator = "<" -> SameType(f.Field, v, f.Value) /\ v < f.Value
      [] f.Operator = "<=" -> SameType(f.Field, v, f.Value) /\ v <= f.Value
      [] f.Operator = "!=" -> v # f.Value
      [] f.Operator = "in" ->
            \E i \in 1..Len(f.Value) :
                SameType(f.Field, v, f.Value[i]) /\ v = f.Value[i]
      [] f.Operator = "not-in" ->
            \A i \in 1..Len(f.Value) : v # f.Value[i]
      [] f.Operator = "array-contains" ->
            IsArray(f.Field) /\ \E i \in 1..Len(v) : v[i] = f.Value
      [] f.Operator = "array-contains-any" ->
            IsArray(f.Field)
            /\ \E i \in 1..Len(v), j \in 1..Len(f.Value) : v[i] = f.Value[j]

MatchesAll(data, filters) ==
    \A i \in 1..Len(filters) : Matches(data, filters[i])

\* The operators of an inequality filter, by whose field the store orders
\* the result of a query that names no order.
Inequalities == {"<", "<=", ">", ">=", "!=", "not-in"}

\* The orders of a query that was given some: unless the query orders by
\* the document name already, the document name comes last, in the
\* direction of the last order.
WithDocumentID(q) ==
    IF \E i \in 1..Len(q.orders) : q.orders[i].Field = DocumentID
    THEN q.orders
    ELSE Append(q.orders, [Field |-> DocumentID,
                           Direction |-> q.orders[Len(q.orders)].Direction])

\* The orders of a query without orders: the field of the first filter
\* whose operator is in ops, then the document name.
ImpliedOrders(q, ops) ==
    LET first == SelectSeq(q.filters, LAMBDA f : f.Operator \in ops)
    IN  (IF Len(first) > 0
         THEN <<[Field |-> first[1].Field, Direction |-> Asc]>>
         ELSE <<>>) \o <<[Field |-> DocumentID, Direction |-> Asc]>>

\* The orders the client gives a query that starts after a document
\* snapshot: the explicit ones, else the field of the first filter that is
\* not an equality, and the document name last.
AdjustOrders(q) ==
    IF Len(q.orders) > 0 THEN WithDocumentID(q)
    ELSE ImpliedOrders(q, Operators \ {"=="})

\* The orders the store gives a query without cursor: the explicit ones,
\* else the field of the first inequality filter, and the document name
\* last.
StoreOrders(q) ==
    IF Len(q.orders) > 0 THEN WithDocumentID(q)
    ELSE ImpliedOrders(q, Inequalities)

\* The orders the query runs with.
QueryOrders(q) ==
    IF q.startAfter = NilPtr THEN StoreOrders(q) ELSE AdjustOrders(q)

\* The fields that decide the position of a document in the result.
OrderFields(q) ==
    {AdjustOrders(q)[i].Field : i \in 1..Len(AdjustOrders(q))} \ {DocumentID}

FieldValue(snap, field) ==
    IF field = DocumentID THEN snap.id ELSE snap.data[field]

\* Array a sorts before array b: by the first element that differs, a
\* prefix first.
RECURSIVE ArrayLess(_, _, _)
ArrayLess(a, b, i) ==
    IF i > Len(a) THEN i <= Len(b)
    ELSE IF i > Len(b) THEN FALSE
    ELSE IF a[i] = b[i] THEN ArrayLess(a, b, i + 1)
    ELSE a[i] < b[i]

\* Value a of the field sorts before value b.
Less(field, a, b) == IF IsArray(field) THEN ArrayLess(a, b, 1) ELSE a < b

\* snapshot a sorts strictly before snapshot b under the orders ords[i..].
RECURSIVE Before(_, _, _, _)
Before(a, b, ords, i) ==
    IF i > Len(ords) THEN FALSE
    ELSE LET va == FieldValue(a, ords[i].Field)
             vb == FieldValue(b, ords[i].Field)
         IN  IF va = vb THEN Before(a, b, ords, i + 1)
             ELSE IF ords[i].Direction = Asc
                  THEN Less(ords[i].Field, va, vb)
                  ELSE Less(ords[i].Field, vb, va)

\* Largest document id the model ever uses.
MaxPages == 2
MaxDocID == MaxPages * DefaultUpdateBatchSize + 1

Snapshot(S, id) == [id |-> id, data |-> S[id]]

\* Documents(ctx).GetAll() of a query without error: the matching documents
\* of collection content S that hold every field the query orders by, in
\* order, after the cursor, cut to the limit; a sequence of snapshots.
RunQuery(S, q) ==
    LET ords == QueryOrders(q)
        keep(id) ==
            /\ id \in DOMAIN S
            /\ MatchesAll(S[id], q.filters)
            /\ \A i \in 1..Len(ords) :
                  ords[i].Field \in DOMAIN S[id] \cup {DocumentID}
            /\ \/ q.startAfter = NilPtr
               \/ Before(q.startAfter, Snapshot(S, id), ords, 1)
        cands == SelectSeq([i \in 1..MaxDocID |-> i], keep)
        lt(x, y) == Before(Snapshot(S, x), Snapshot(S, y), ords, 1)
        sorted == SortSeq(cands, lt)
        n == IF q.limit = NoLimit THEN Len(sorted) ELSE Min(q.limit, Len(sorted))
    IN  [i \in 1..n |-> Snapshot(S, sorted[i])]

\* The ids of a sequence of snapshots.
IdsOf(snaps) == {snaps[i].id : i \in 1..Len(snaps)}

-----------------------------------------------------------------------------
(* Predicate builder: DB.ApplyQueries *)

\* One where-clause list applied to acc = [q, err, resolved, spec]; spec is
\* the position of the list's spec, resolved the positions <<spec, filter>>
\* of the filters whose value provider was asked for its value, in the
\* order they were asked.
\* (variant: a failed provider does not end the resolution)
RECURSIVE ApplyWhere_ResolvesAll(_, _, _)
ApplyWhere_ResolvesAll(acc, ws, i) ==
    IF i > Len(ws) THEN acc
    ELSE ApplyWhere_ResolvesAll(
           IF ws[i].ValueProvider # NilPtr
           THEN [acc EXCEPT !.err = IF ws[i].ValueProvider.fails
                                    THEN "failed to get value" ELSE @,
                            !.resolved = Append(@, <<acc.spec, i>>)]
           ELSE acc, ws, i + 1)

RECURSIVE ApplyWhere(_, _, _)
ApplyWhere(acc, ws, i) ==
    IF i > Len(ws) THEN acc
    ELSE LET w == ws[i] IN
         IF w.ValueProvider # NilPtr
         THEN IF w.ValueProvider.fails
              THEN [acc EXCEPT !.err = "failed to get value",
                               !.resolved = Append(@, <<acc.spec, i>>)]
              ELSE ApplyWhere(
                     [acc EXCEPT !.q = Where(@, w.Field, w.Operator,
                                             w.ValueProvider.value),
                                 !.resolved = Append(@, <<acc.spec, i>>)],
                     ws, i + 1)
         ELSE ApplyWhere(
                [acc EXCEPT !.q = Where(@, w.Field, w.Operator, w.Value)],
                ws, i + 1)

RECURSIVE ApplyOrderBy(_, _, _)
ApplyOrderBy(q, os, i) ==
    IF i > Len(os) THEN q
    ELSE ApplyOrderBy(OrderBy(q, os[i].Field, os[i].Direction), os, i + 1)

ApplyLimit(q, qry) ==
    IF qry.Limit > 0 /\ qry.Limit # QueryLimitUnlimited
    THEN Limit(q, qry.Limit) ELSE q

RECURSIVE ApplyFrom(_, _, _)
ApplyFrom(acc, queries, k) ==
    IF k > Len(queries) THEN acc
    ELSE LET qry == queries[k]
             w == ApplyWhere([acc EXCEPT !.spec = k], qry.Where, 1)
         IN  IF w.err # Nil THEN w
             ELSE ApplyFrom(
                    [w EXCEPT !.q = ApplyLimit(ApplyOrderBy(@, qry.OrderBy, 1),
                                               qry)],
                    queries, k + 1)

ApplyQueries(q, queries) ==
    ApplyFrom([q |-> q, err |-> Nil, resolved |-> <<>>, spec |-> 0],
              queries, 1)

-----------------------------------------------------------------------------
(* Store and transaction (external) *)

\* What a call asked of the outside: store reads and writes, direct and in
\* the transaction; the number of documents its query reads returned; the
\* value providers it resolved (their number, and their fields in order).
NoCalls == [reads |-> 0, writes |-> 0, txReads |-> 0, txWrites |-> 0,
            resolves |-> 0, fetched |-> 0, resolved |-> <<>>]

\* The provider resolutions of one ApplyQueries application.
Resolutions(applied) ==
    [NoCalls EXCEPT !.resolves = Len(applied.resolved),
                    !.resolved = applied.resolved]

Exists(col, id) == id \in DOMAIN store[col]

\* firestore.Update{Path, Value} whose Value is a transform carries its kind
\* in Transform: firestore.Increment(Value) or firestore.ServerTimestamp.
Increment(path, n) == [Path |-> path, Value |-> n, Transform |-> "Increment"]

ServerTimestamp(path) ==
    [Path |-> path, Value |-> 0, Transform |-> "ServerTimestamp"]

\* The time the store gives a commit: later than every earlier commit of the
\* call.
CommitTime == FirstCommitTime + Len(commits)

\* The field age holds a number unless it holds a timestamp.
IsNumber(field, v) == field = "age" /\ ~IsTimestamp(field, v)

\* The value update u leaves in a document that held data: an increment
\* adds to the number the field holds, and counts from 0 where the field
\* is missing or holds no number.
WrittenValue(data, u) ==
    IF "Transform" \notin DOMAIN u THEN u.Value
    ELSE IF u.Transform = "Increment"
    THEN (IF u.Path \in DOMAIN data /\ IsNumber(u.Path, data[u.Path])
          THEN data[u.Path] ELSE 0) + u.Value
    ELSE CommitTime

\* firestore.Update{Path, Value} applied in order to a field map.
RECURSIVE ApplyUpdates(_, _, _)
ApplyUpdates(data, updates, i) ==
    IF i > Len(updates) THEN data
    ELSE ApplyUpdates(
           [k \in DOMAIN data \cup {updates[i].Path} |->
               IF k = updates[i].Path THEN WrittenValue(data, updates[i])
               ELSE data[k]],
           updates, i + 1)

\* The collection content after updates were applied to the documents ids.
UpdateDocs(S, ids, updates) ==
    [id \in DOMAIN S |->
        IF id \in ids THEN ApplyUpdates(S[id], updates, 1) ELSE S[id]]

\* docRef.Set(data): the document is created or replaced.
SetDoc(S, id, data) ==
    [k \in DOMAIN S \cup {id} |-> IF k = id THEN data ELSE S[k]]

\* docRef.Delete(): deleting a missing document succeeds.
DeleteDoc(S, id) == [k \in DOMAIN S \ {id} |-> S[k]]

\* reflect.New(modelType): the zero value of the bound type.
ZeroModel(t) ==
    [type |-> t, ptr |-> TRUE, ID |-> EmptyID,
     f |-> IF t = "Example" THEN [name |-> ""]
           ELSE [name |-> "", age |-> 0]]

\* The fields of the struct that the document holds a value for.
Matched(model, data) == DOMAIN model.f \cap DOMAIN data

\* The error of doc.DataTo(model): the destination must be a pointer, and
\* every matched field must take the value stored for it.
DataToErr(model, data) ==
    IF ~model.ptr THEN "firestore: nil or not a pointer"
    ELSE IF \E k \in Matched(model, data) : IsTimestamp(k, data[k])
    THEN "firestore: cannot set type"
    ELSE Nil

\* What a failed doc.DataTo(model) may leave in the struct: the fields of
\* the document are set in no fixed order, so any of the fields that take
\* their value may have been set before the failing one was met.
DataToFailed(model, data) ==
    IF ~model.ptr THEN {model}
    ELSE LET good == {k \in Matched(model, data) : ~IsTimestamp(k, data[k])}
         IN  {[model EXCEPT !.f = [k \in DOMAIN model.f |->
                                    IF k \in before THEN data[k]
                                    ELSE model.f[k]]] :
                 before \in SUBSET good}

\* A successful doc.DataTo(model): the fields the document holds are decoded
\* into the struct, the others keep their value; an ID field tagged for
\* storage is decoded like any other field.
DataTo(model, data) ==
    [model EXCEPT
        !.f = [k \in DOMAIN model.f |->
                 IF k \in DOMAIN data THEN data[k] ELSE model.f[k]],
        !.ID = IF IDTag(model.type) \in DOMAIN data
               THEN data[IDTag(model.type)] ELSE @]

\* Writes buffered in one transaction.
MaxTxWrites == 1

TxWrite(kind, col, id, data) ==
    [kind |-> kind, col |-> col, id |-> id, data |-> data]

\* tx.Set / tx.Update / tx.Delete: the write is buffered until commit.
Buffered(w) == [tx EXCEPT !.writes = Append(@, w)]

\* tx.Get / tx.Documents: firestore refuses a read that follows a write of
\* the same transaction.
TxReadErr == IF Len(tx.writes) > 0 THEN "read after write in transaction"
             ELSE Nil

\* The buffered writes applied in order to st = [store, err]; an update of a
\* missing document fails the commit.
RECURSIVE ApplyWrites(_, _, _)
ApplyWrites(st, writes, i) ==
    IF i > Len(writes) \/ st.err # Nil THEN st
    ELSE LET w == writes[i]
             S == st.store[w.col]
         IN  CASE w.kind = "set" ->
                    ApplyWrites([st EXCEPT !.store[w.col] =
                                    SetDoc(S, w.id, w.data)], writes, i + 1)
               [] w.kind = "delete" ->
                    ApplyWrites([st EXCEPT !.store[w.col] =
                                    DeleteDoc(S, w.id)], writes, i + 1)
               [] OTHER ->
                    IF w.id \in DOMAIN S
                    THEN ApplyWrites([st EXCEPT !.store[w.col] =
                                         UpdateDocs(S, {w.id}, w.data)],
                                     writes, i + 1)
                    ELSE [st EXCEPT !.err = "NotFound"]

-----------------------------------------------------------------------------
(* Handlers: entry and return *)

\* The arguments of a handler call (those a handler does not take are empty).
\* kind is the Go type of FindAll's destination, one of DestKinds.
Args(model, fields, queries, updates, into) ==
    [model |-> model, fields |-> fields, queries |-> queries,
     updates |-> updates, dest |-> into, kind |-> "*[]T"]

NoModelSet == "no model set, call db.Model(&Model{}) first"

\* A handler may be called: the caller is idle and its last call is behind it.
Callable == pc = "idle" /\ op = Nil

\* A handler called on db0 with args is running or has returned.
Entered(name, db0, args, model, calls) ==
    /\ op' = name
    /\ recv' = db0
    /\ arg' = args
    /\ rec' = model
    /\ ext' = calls

\* A handler returns err; model is the caller's record as it leaves it.
Return(name, db0, args, err, model, calls) ==
    /\ Entered(name, db0, args, model, calls)
    /\ pc' = "idle"
    /\ ret' = err

-----------------------------------------------------------------------------
(* DB.Update *)

\* Update(ctx, model, updates, where...): lines 368-399, up to the loop.
\* storeOk: whether the store accepts a direct write.
Update(db0, model, updates, where, storeOk) ==
    LET db == Model(db0, model.type)
        colName == CollectionName(db)
        id == GetID(model)
        args == Args(model, <<>>, where, updates, <<>>)
    IN
    IF db.modelType = Nil
    THEN /\ Return(IF id # EmptyID THEN "UpdateByID" ELSE "UpdateByQuery",
                   db0, args, NoModelSet, model, NoCalls)
         /\ UNCHANGED <<store, tx, dest, loopVars>>
    ELSE IF id # EmptyID
    THEN \* direct update by ID
         IF HasTransaction(db.conn)
         THEN /\ Len(tx.writes) < MaxTxWrites
              /\ tx' = [tx EXCEPT !.writes =
                           Append(@, TxWrite("update", colName, id, updates))]
              /\ Return("UpdateByID", db0, args, Nil, model,
                        [NoCalls EXCEPT !.txWrites = 1])
              /\ UNCHANGED <<store, dest, loopVars>>
         ELSE /\ IF storeOk /\ Exists(colName, id)
                 THEN /\ store' = [store EXCEPT ![colName] =
                                     UpdateDocs(@, {id}, updates)]
                      /\ Return("UpdateByID", db0, args, Nil, model,
                                [NoCalls EXCEPT !.writes = 1])
                 ELSE /\ store' = store
                      /\ Return("UpdateByID", db0, args,
                                IF storeOk THEN "NotFound" ELSE "Unavailable",
                                model, [NoCalls EXCEPT !.writes = 1])
              /\ UNCHANGED <<tx, dest, loopVars>>
    ELSE IF Len(where) = 0 \/ Len(where[1]) = 0
    THEN /\ Return("UpdateByQuery", db0, args,
                   "either ID or query conditions must be provided",
                   model, NoCalls)
         /\ UNCHANGED <<store, tx, dest, loopVars>>
    ELSE LET applied == ApplyQueries(CollectionQuery(colName), where[1])
             calls == Resolutions(applied)
         IN  IF applied.err # Nil
             THEN /\ Return("UpdateByQuery", db0, args, applied.err, model,
                            calls)
                  /\ UNCHANGED <<store, tx, dest, loopVars>>
             ELSE /\ Entered("UpdateByQuery", db0, args, model, calls)
                  /\ pc' = "page"
                  /\ ret' = "pending"
                  /\ call' = [db |-> db, updates |-> updates, q |-> applied.q]
                  /\ lastDoc' = NilPtr
                  /\ docs' = <<>>
                  /\ commits' = <<>>
                  /\ iters' = 0
                  /\ matched0' = IF applied.q.err # Nil THEN {}
                                 ELSE IdsOf(RunQuery(store[colName],
                                                     Limit(applied.q,
                                                           NoLimit)))
                  /\ UNCHANGED <<store, tx, dest>>

\* (variant: the cursor is the last document as the commit left it)
NextCursor_AfterUpdate(page) ==
    [page[Len(page)] EXCEPT !.data = ApplyUpdates(@, call.updates, 1)]

\* lastDoc = docs[len(docs)-1]
NextCursor(page) == page[Len(page)]

\* One loop iteration up to the page test: lines 403-418.
UpdateQueryPage ==
    /\ pc = "page"
    /\ \E storeOk \in BOOLEAN :
        LET query == IF lastDoc # NilPtr THEN StartAfter(call.q, lastDoc)
                     ELSE call.q
            page == RunQuery(store[query.col],
                             Limit(query, GetUpdateBatchSize(call.db)))
            ok == storeOk /\ query.err = Nil
        IN  /\ iters' = iters + 1
            /\ ext' = [ext EXCEPT !.reads = @ + 1,
                                  !.fetched = @ + (IF ok THEN Len(page)
                                                   ELSE 0)]
            /\ IF ~ok
               THEN /\ pc' = "idle"
                    /\ ret' = "failed to retrieve documents"
                    /\ docs' = docs
               ELSE IF Len(page) = 0
               THEN /\ pc' = "idle"
                    /\ ret' = Nil
                    /\ docs' = page
               ELSE /\ pc' = "commit"
                    /\ ret' = ret
                    /\ docs' = page
    /\ UNCHANGED <<store, tx, op, recv, arg, rec, dest, call, lastDoc, commits,
                   matched0>>
    /\ UNCHANGED bindVars

\* (variant: a batch that fails has already written its first update)
BatchCommit_Partial(S, snaps, updates, ok) ==
    UpdateDocs(S, IF ok THEN IdsOf(snaps) ELSE {snaps[1].id}, updates)

\* batch.Update(doc.Ref, updates) for each document of the page, then
\* batch.Commit(ctx): the collection afterwards; the writes of a batch are
\* applied together or not at all.
BatchCommit(S, snaps, updates, ok) ==
    IF ok THEN UpdateDocs(S, IdsOf(snaps), updates) ELSE S

\* The rest of the iteration: lines 420-434.
UpdateCommit ==
    /\ pc = "commit"
    /\ IF HasTransaction(call.db.conn)
       THEN /\ pc' = "idle"
            /\ ret' = "transactional batch updates are not supported"
            /\ UNCHANGED <<store, ext, lastDoc, commits>>
       ELSE \E storeOk \in BOOLEAN :
            /\ ext' = [ext EXCEPT !.writes = @ + 1]
            /\ IF storeOk
               THEN /\ store' = [store EXCEPT ![call.q.col] =
                                    BatchCommit(@, docs, call.updates, TRUE)]
                    /\ commits' = Append(commits, IdsOf(docs))
                    /\ lastDoc' = NextCursor(docs)
                    /\ pc' = "page"
                    /\ ret' = ret
               ELSE /\ store' = [store EXCEPT ![call.q.col] =
                                    BatchCommit(@, docs, call.updates, FALSE)]
                    /\ pc' = "idle"
                    /\ ret' = "batch commit failed"
                    /\ UNCHANGED <<lastDoc, commits>>
    /\ UNCHANGED <<tx, op, recv, arg, rec, dest, call, docs, iters, matched0>>
    /\ UNCHANGED bindVars

-----------------------------------------------------------------------------
(* DB.GetByID, DB.FindAll, DB.FindOne *)

\* A read of the store, direct or in the transaction (ok: the store
\* answers); the transaction refuses a read that follows one of its writes
\* before it asks the store.
ReadErr(db, ok) ==
    IF HasTransaction(db.conn) /\ TxReadErr # Nil THEN TxReadErr
    ELSE IF ok THEN Nil ELSE "Unavailable"

\* Documents(q).GetAll(), direct or in the transaction: after the
\* transaction's refusal comes the error the query carries, which ends the
\* call before the store is asked.
DocumentsErr(db, q, ok) ==
    IF HasTransaction(db.conn) /\ TxReadErr # Nil THEN TxReadErr
    ELSE IF q.err # Nil THEN q.err
    ELSE ReadErr(db, ok)

ReadCalls(db, calls) ==
    IF HasTransaction(db.conn) THEN [calls EXCEPT !.txReads = @ + 1]
    ELSE [calls EXCEPT !.reads = @ + 1]

GetByID(db0, model, storeOk) ==
    LET db == Model(db0, model.type)
        colName == CollectionName(db)
        id == GetID(model)
        args == Args(model, <<>>, <<>>, <<>>, <<>>)
        calls == ReadCalls(db, NoCalls)
        err == ReadErr(db, storeOk)
    IN
    /\ IF db.modelType = Nil
       THEN Return("GetByID", db0, args, NoModelSet, model, NoCalls)
       ELSE IF id = EmptyID
       THEN Return("GetByID", db0, args, "ID cannot be empty", model, NoCalls)
       ELSE IF err # Nil
       THEN Return("GetByID", db0, args, err, model, calls)
       ELSE IF ~Exists(colName, id)
       THEN Return("GetByID", db0, args, "NotFound", model, calls)
       ELSE IF ~model.ptr
       THEN \* doc.DataTo(&model) puts a fresh value into the handler's own
            \* variable: the caller's struct is not reached
            Return("GetByID", db0, args, Nil, model, calls)
       ELSE IF DataToErr(model, store[colName][id]) # Nil
       THEN \E left \in DataToFailed(model, store[colName][id]) :
               Return("GetByID", db0, args, "failed to parse document", left,
                      calls)
       ELSE Return("GetByID", db0, args, Nil,
                   DataTo(model, store[colName][id]), calls)
    /\ UNCHANGED <<store, tx, dest, loopVars>>

\* The decode loop fails at the first snapshot the type cannot take.
DecodeErr(t, snaps) ==
    IF \E i \in 1..Len(snaps) : DataToErr(ZeroModel(t), snaps[i].data) # Nil
    THEN "failed to parse document" ELSE Nil

\* The decode loop over snapshots the type can take: one element per
\* snapshot, DataTo into a new instance, then SetIDField.
Decoded(t, snaps) ==
    [i \in 1..Len(snaps) |->
        SetIDField(DataTo(ZeroModel(t), snaps[i].data), snaps[i].id)]

\* (variant: the slice is rebuilt from the documents alone)
Appended_Replaced(into, elems) == elems

\* sliceVal = rv.Elem(); sliceVal = reflect.Append(sliceVal, ...) per document
Appended(into, elems) == into \o elems

\* The destinations FindAll is called with, by Go type: a pointer to a
\* slice of structs, the nil pointer of that type, such a slice itself, a
\* pointer to a slice of pointers, a slice of slices of structs.  (The type
\* of each has an element type; reflect's Elem panics for the others.)
DestKinds == {"*[]T", "(*[]T)(nil)", "[]T", "*[]*T", "[][]T"}

\* The check of the destination's type before anything else:
\* reflect.TypeOf(dest).Elem() must be a slice, and its element a struct.
\* For []T the first is the struct T; for [][]T they are []T and T.
DestTypeErr(kind) ==
    IF kind = "[]T" THEN "dest must be a pointer to a slice"
    ELSE IF kind = "*[]*T" THEN "dest slice element must be a struct"
    ELSE Nil

\* The check of the destination's value once the documents are read: dest
\* must be a pointer, and what it points to a slice.  A nil pointer points
\* to nothing, and a slice of slices is no pointer.
DestValueErr(kind) ==
    IF kind = "*[]T" THEN Nil ELSE "dest must be a pointer to a slice"

\* FindAll(ctx, queries, dest): dest is of the Go type kind, its elements of
\* type t, and its slice holds into.
FindAll(db0, queries, t, kind, into, storeOk) ==
    LET db == Model(db0, t)
        colName == CollectionName(db)
        args == [Args(ZeroModel(t), <<>>, queries, <<>>, into)
                    EXCEPT !.kind = kind]
        applied == ApplyQueries(CollectionQuery(colName), queries)
        resolved == Resolutions(applied)
        calls == ReadCalls(db, resolved)
        err == DocumentsErr(db, applied.q, storeOk)
        found == RunQuery(store[colName], applied.q)
    IN
    /\ IF DestTypeErr(kind) # Nil
       THEN /\ Return("FindAll", db0, args, DestTypeErr(kind), rec, NoCalls)
            /\ dest' = into
       ELSE IF db.modelType = Nil
       THEN /\ Return("FindAll", db0, args, NoModelSet, rec, NoCalls)
            /\ dest' = into
       ELSE IF applied.err # Nil
       THEN /\ Return("FindAll", db0, args, applied.err, rec, resolved)
            /\ dest' = into
       ELSE IF err # Nil
       THEN /\ Return("FindAll", db0, args, err, rec, calls)
            /\ dest' = into
       ELSE IF DestValueErr(kind) # Nil
       THEN /\ Return("FindAll", db0, args, DestValueErr(kind), rec,
                      [calls EXCEPT !.fetched = Len(found)])
            /\ dest' = into
       ELSE IF DecodeErr(t, found) # Nil
       THEN /\ Return("FindAll", db0, args, DecodeErr(t, found), rec,
                      [calls EXCEPT !.fetched = Len(found)])
            /\ dest' = into
       ELSE /\ Return("FindAll", db0, args, Nil, rec,
                      [calls EXCEPT !.fetched = Len(found)])
            /\ dest' = Appended(into, Decoded(t, found))
    /\ UNCHANGED <<store, tx, loopVars>>

\* (variant: the query keeps the limit the specs gave it)
FirstOnly_SpecLimit(q) == q

\* q = q.Limit(1)
FirstOnly(q) == Limit(q, 1)

FindOne(db0, queries, model, storeOk) ==
    LET db == Model(db0, model.type)
        colName == CollectionName(db)
        args == Args(model, <<>>, queries, <<>>, <<>>)
        applied == ApplyQueries(CollectionQuery(colName), queries)
        resolved == Resolutions(applied)
        calls == ReadCalls(db, resolved)
        err == DocumentsErr(db, applied.q, storeOk)
        found == RunQuery(store[colName], FirstOnly(applied.q))
        got == [calls EXCEPT !.fetched = Len(found)]
    IN
    /\ IF db.modelType = Nil
       THEN Return("FindOne", db0, args, NoModelSet, model, NoCalls)
       ELSE IF applied.err # Nil
       THEN Return("FindOne", db0, args, applied.err, model, resolved)
       ELSE IF err # Nil
       THEN Return("FindOne", db0, args, err, model, calls)
       ELSE IF Len(found) = 0
       THEN Return("FindOne", db0, args, "no document found", model, got)
       ELSE IF DataToErr(model, found[1].data) # Nil
       THEN \E left \in DataToFailed(model, found[1].data) :
               Return("FindOne", db0, args, "failed to parse document", left,
                      got)
       ELSE Return("FindOne", db0, args, Nil,
                   SetIDField(DataTo(model, found[1].data), found[1].id),
                   got)
    /\ UNCHANGED <<store, tx, dest, loopVars>>

-----------------------------------------------------------------------------
(* DB.Save, DB.Delete *)

\* (variant: every field of the mapping is written)
FieldUpdates_All(data, fieldsToSave) ==
    LET RECURSIVE AsSeq(_)
        AsSeq(ks) ==
            IF ks = {} THEN <<>>
            ELSE LET k == CHOOSE x \in ks : TRUE
                 IN  <<[Path |-> k, Value |-> data[k]]>> \o AsSeq(ks \ {k})
    IN  AsSeq(DOMAIN data)

\* updates = append(updates, firestore.Update{Path: field, Value: value})
FieldUpdates(data, fieldsToSave) ==
    [i \in 1..Len(fieldsToSave) |->
        [Path |-> fieldsToSave[i], Value |-> data[fieldsToSave[i]]]]

\* The listed fields the mapping does not hold.
Missing(data, fieldsToSave) ==
    {i \in 1..Len(fieldsToSave) : fieldsToSave[i] \notin DOMAIN data}

\* Save(ctx, model, fieldsToSave...).  newID: the identifier NewDoc() draws
\* when a document is created; storeOk: whether the store accepts a direct
\* write.
Save(db0, model, fieldsToSave, newID, storeOk) ==
    LET db == Model(db0, model.type)
        colName == CollectionName(db)
        data == StructToMap(model)
        create == GetID(model) = EmptyID /\ Len(fieldsToSave) = 0
        saved == IF create THEN SetIDField(model, newID) ELSE model
        id == IF create THEN newID ELSE GetID(model)
        args == Args(model, fieldsToSave, <<>>, <<>>, <<>>)
        direct == [NoCalls EXCEPT !.writes = 1]
        inTx == [NoCalls EXCEPT !.txWrites = 1]
    IN
    /\ IF db.modelType = Nil
       THEN /\ Return("Save", db0, args, NoModelSet, model, NoCalls)
            /\ UNCHANGED <<store, tx>>
       ELSE IF Len(fieldsToSave) > 0 /\ id = EmptyID
       THEN /\ Return("Save", db0, args,
                      "cannot update fields on a record with no ID",
                      saved, NoCalls)
            /\ UNCHANGED <<store, tx>>
       ELSE IF Len(fieldsToSave) = 0
       THEN \* set or create the entire document
            IF HasTransaction(db.conn)
            THEN /\ Len(tx.writes) < MaxTxWrites
                 /\ tx' = Buffered(TxWrite("set", colName, id, data))
                 /\ store' = store
                 /\ Return("Save", db0, args, Nil, saved, inTx)
            ELSE /\ tx' = tx
                 /\ IF storeOk
                    THEN /\ store' = [store EXCEPT ![colName] =
                                         SetDoc(@, id, data)]
                         /\ Return("Save", db0, args, Nil, saved, direct)
                    ELSE /\ store' = store
                         /\ Return("Save", db0, args, "Unavailable", saved,
                                   direct)
       ELSE IF Missing(data, fieldsToSave) # {}
       THEN /\ Return("Save", db0, args, "field not found in model data",
                      saved, NoCalls)
            /\ UNCHANGED <<store, tx>>
       ELSE \* update selected fields only
            LET updates == FieldUpdates(data, fieldsToSave) IN
            IF HasTransaction(db.conn)
            THEN /\ Len(tx.writes) < MaxTxWrites
                 /\ tx' = Buffered(TxWrite("update", colName, id, updates))
                 /\ store' = store
                 /\ Return("Save", db0, args, Nil, saved, inTx)
            ELSE /\ tx' = tx
                 /\ IF storeOk /\ Exists(colName, id)
                    THEN /\ store' = [store EXCEPT ![colName] =
                                         UpdateDocs(@, {id}, updates)]
                         /\ Return("Save", db0, args, Nil, saved, direct)
                    ELSE /\ store' = store
                         /\ Return("Save", db0, args,
                                   IF storeOk THEN "NotFound"
                                   ELSE "Unavailable", saved, direct)
    /\ UNCHANGED <<dest, loopVars>>

\* Delete(ctx, model): the collection is that of the receiver's bound model.
Delete(db, model, storeOk) ==
    LET colName == CollectionName(db)
        id == GetID(model)
        args == Args(model, <<>>, <<>>, <<>>, <<>>)
    IN
    /\ IF db.modelType = Nil
       THEN /\ Return("Delete", db, args, NoModelSet, model, NoCalls)
            /\ UNCHANGED <<store, tx>>
       ELSE IF id = EmptyID
       THEN /\ Return("Delete", db, args, "ID cannot be empty for delete",
                      model, NoCalls)
            /\ UNCHANGED <<store, tx>>
       ELSE IF HasTransaction(db.conn)
       THEN /\ Len(tx.writes) < MaxTxWrites
            /\ tx' = Buffered(TxWrite("delete", colName, id, <<>>))
            /\ store' = store
            /\ Return("Delete", db, args, Nil, model,
                      [NoCalls EXCEPT !.txWrites = 1])
       ELSE /\ tx' = tx
            /\ store' = IF storeOk
                        THEN [store EXCEPT ![colName] = DeleteDoc(@, id)]
                        ELSE store
            /\ Return("Delete", db, args,
                      IF storeOk THEN Nil ELSE "Unavailable", model,
                      [NoCalls EXCEPT !.writes = 1])
    /\ UNCHANGED <<dest, loopVars>>

-----------------------------------------------------------------------------
(* Inputs *)

\* fireorm.WhereClause with a literal value / with a value provider.
WC(field, operator, value) ==
    [Field |-> field, Operator |-> operator, Value |-> value,
     ValueProvider |-> NilPtr]

WP(field, operator, provider) ==
    [Field |-> field, Operator |-> operator, Value |-> 0,
     ValueProvider |-> provider]

\* An IValueProvider: what GetValue returns.
Provider(value, fails) == [value |-> value, fails |-> fails]

Query(where, orderBy, limit) ==
    [Where |-> where, OrderBy |-> orderBy, Limit |-> limit]

UserData(name, age) == [name |-> name, age |-> age]

\* The connection and orchestrator of the tests:
\* connection := NewConnection(client); db := New(connection).Model(&User{})
TestConnection == NewConnection("client", Nil)
TestDB == Model(New(TestConnection), "User")

\* The orchestrators the caller holds: db, and db.WithTransaction(tx) while
\* its transaction runs.
CallerDBs ==
    {TestDB} \cup (IF tx.active THEN {WithTransaction(TestDB, "tx")} ELSE {})

ZeroUser == ZeroModel("User")

NoArgs == Args(ZeroUser, <<>>, <<>>, <<>>, <<>>)

\* No handler has been called yet.
InitCaller ==
    /\ tx = [active |-> FALSE, writes |-> <<>>]
    /\ op = Nil
    /\ recv = TestDB
    /\ arg = NoArgs
    /\ ret = Nil
    /\ ext = NoCalls
    /\ rec = ZeroUser
    /\ dest = <<>>
    /\ call = [db |-> TestDB, updates |-> <<>>, q |-> CollectionQuery("users")]
    /\ lastDoc = NilPtr
    /\ docs = <<>>
    /\ commits = <<>>
    /\ iters = 0
    /\ matched0 = {}

-----------------------------------------------------------------------------
(* Binding operations on the heap: concurrent callers share one base *)

\* Concurrent callers; caller c brings its own connection (pointer c + 1 of
\* conns), its own transaction handle and the models it binds.
NumCallers == 2
Callers == 1..NumCallers

\* Instances the heap may hold.
MaxInstances == 3

BasePtr == 1

CallerTx(c) == IF c = 1 THEN "tx1" ELSE IF c = 2 THEN "tx2" ELSE "tx3"

BatchSizes == {1, 2}

\* connection := NewConnection(client); base := New(connection)
InitHeap ==
    /\ conns = [i \in 1..(NumCallers + 1) |-> NewConnection("client", Nil)]
    /\ dbs = <<New(BasePtr)>>
    /\ cpc = [c \in Callers |-> "idle"]
    /\ cop = [c \in Callers |->
                [name |-> Nil, recv |-> BasePtr, arg |-> Nil, ret |-> BasePtr,
                 conn |-> BasePtr]]
    /\ cnew = [c \in Callers |-> BasePtr]
    /\ held = [c \in Callers |-> {BasePtr}]
    /\ supplied = [c \in Callers |-> {}]
    /\ setters = 0

\* (variant: newInstance aliases the receiver)
NewInstance_Alias(db) == db

\* newInstance := &DB{options: db.options}: the pointer of the new instance.
NewInstance(db) == Len(dbs) + 1

\* The heap once NewInstance(db) was allocated as a copy of db's options.
Allocated(db) ==
    IF NewInstance(db) > Len(dbs) THEN Append(dbs, dbs[db]) ELSE dbs

\* SetConnection: db.options.conn = conn
SetConnection(heap, db, conn) == [heap EXCEPT ![db].conn = conn]

\* Connection.SetTransaction: c.transaction = tx
SetTransaction(heap, conn, t) == [heap EXCEPT ![conn].transaction = t]

\* Connection.SetClient: c.client = client
SetClient(heap, conn, client) == [heap EXCEPT ![conn].client = client]

\* First half of a binding call by caller c on receiver db: newInstance is
\* allocated (WithTransaction has built its new connection before; conn is
\* its pointer, and the receiver's connection for the other calls).
BindBegin(c, name, db, a) ==
    /\ cpc[c] = "idle"
    /\ db \in held[c]
    /\ Len(dbs) < MaxInstances
    /\ cpc' = [cpc EXCEPT ![c] = "built"]
    /\ cop' = [cop EXCEPT ![c] =
                  [name |-> name, recv |-> db, arg |-> a, ret |-> db,
                   conn |-> IF name = "WithTransaction" THEN Len(conns) + 1
                            ELSE dbs[db].conn]]
    /\ cnew' = [cnew EXCEPT ![c] = NewInstance(db)]
    /\ dbs' = Allocated(db)
    /\ conns' = IF name = "WithTransaction"
                THEN Append(conns,
                            NewConnection(conns[dbs[db].conn].client, a))
                ELSE conns
    /\ supplied' = IF name = "Model"
                   THEN [supplied EXCEPT ![c] = @ \cup {a}] ELSE supplied
    /\ UNCHANGED <<held, setters>>

\* The binding call of caller c returns the instance db.
Returned(c, db) ==
    /\ cop' = [cop EXCEPT ![c].ret = db]
    /\ held' = [held EXCEPT ![c] = @ \cup {db}]

\* Second half: the write into newInstance, and the return.
WithConnectionEnd(c) ==
    /\ cpc[c] = "built" /\ cop[c].name = "WithConnection"
    /\ dbs' = SetConnection(dbs, cnew[c], cop[c].arg)
    /\ Returned(c, cnew[c])

WithTransactionEnd(c) ==
    /\ cpc[c] = "built" /\ cop[c].name = "WithTransaction"
    /\ dbs' = SetConnection(dbs, cnew[c], cop[c].conn)
    /\ Returned(c, cnew[c])

ModelEnd(c) ==
    /\ cpc[c] = "built" /\ cop[c].name = "Model"
    /\ dbs' = [dbs EXCEPT ![cnew[c]] = Model(@, cop[c].arg)]
    /\ Returned(c, cnew[c])

\* return db: the receiver, not newInstance.
SetUpdateBatchSizeEnd(c) ==
    /\ cpc[c] = "built" /\ cop[c].name = "SetUpdateBatchSize"
    /\ dbs' = [dbs EXCEPT ![cnew[c]].updateBatchSize = cop[c].arg]
    /\ Returned(c, cop[c].recv)

BindEnd(c) ==
    /\ \/ WithConnectionEnd(c)
       \/ WithTransactionEnd(c)
       \/ ModelEnd(c)
       \/ SetUpdateBatchSizeEnd(c)
    /\ cpc' = [cpc EXCEPT ![c] = "idle"]
    /\ UNCHANGED <<conns, cnew, supplied, setters>>

WithConnectionCall ==
    /\ \E c \in Callers, db \in DOMAIN dbs :
          BindBegin(c, "WithConnection", db, c + 1)
    /\ UNCHANGED crudVars

WithTransactionCall ==
    /\ \E c \in Callers, db \in DOMAIN dbs :
          BindBegin(c, "WithTransaction", db, CallerTx(c))
    /\ UNCHANGED crudVars

ModelCall ==
    /\ \E c \in Callers, db \in DOMAIN dbs, t \in ModelTypes :
          BindBegin(c, "Model", db, t)
    /\ UNCHANGED crudVars

SetUpdateBatchSizeCall ==
    /\ \E c \in Callers, db \in DOMAIN dbs, size \in BatchSizes :
          BindBegin(c, "SetUpdateBatchSize", db, size)
    /\ UNCHANGED crudVars

BindReturn ==
    /\ \E c \in Callers : BindEnd(c)
    /\ UNCHANGED crudVars

\* The setters change their receiver in place; the callers make up to
\* MaxSetterCalls such calls between their binding calls.
MaxSetterCalls == 1

\* The callers that also use the setters (the callers are alike: one is
\* enough to disturb the others).
SetterCallers == {1}

\* Caller c calls a setter on db, an instance it holds, or on db's connection.
SetterCall(c, db) ==
    /\ cpc[c] = "idle"
    /\ c \in SetterCallers
    /\ db \in held[c]
    /\ setters < MaxSetterCalls
    /\ setters' = setters + 1
    /\ UNCHANGED <<cpc, cop, cnew, held, supplied>>

\* db.SetConnection(conn) with the caller's own connection.
SetConnectionCall ==
    /\ \E c \in Callers, db \in DOMAIN dbs :
          /\ SetterCall(c, db)
          /\ dbs' = SetConnection(dbs, db, c + 1)
          /\ conns' = conns
    /\ UNCHANGED crudVars

\* db.GetConnection().SetTransaction(tx) with the caller's transaction.
SetTransactionCall ==
    /\ \E c \in Callers, db \in DOMAIN dbs :
          /\ SetterCall(c, db)
          /\ conns' = SetTransaction(conns, dbs[db].conn, CallerTx(c))
          /\ dbs' = dbs
    /\ UNCHANGED crudVars

\* db.GetConnection().SetClient(client) with another client.
SetClientCall ==
    /\ \E c \in Callers, db \in DOMAIN dbs :
          /\ SetterCall(c, db)
          /\ conns' = SetClient(conns, dbs[db].conn, "client2")
          /\ dbs' = dbs
    /\ UNCHANGED crudVars

InitBind ==
    /\ store = [c \in Collections |-> <<>>]
    /\ pc = "idle"
    /\ InitCaller
    /\ InitHeap

NextBind ==
    \/ WithConnectionCall
    \/ WithTransactionCall
    \/ ModelCall
    \/ SetUpdateBatchSizeCall
    \/ BindReturn
    \/ SetConnectionCall
    \/ SetTransactionCall
    \/ SetClientCall

SpecBind == InitBind /\ [][NextBind]_vars

-----------------------------------------------------------------------------
(* Bulk update over large collections *)

\* Collection sizes around the page boundaries.
BulkSizes ==
    {n \in 0..MaxDocID :
        \E k \in 0..MaxPages, d \in {-1, 0, 1} :
            n = k * DefaultUpdateBatchSize + d}

\* users holds documents 1..n; every second one is older and carries a
\* second tag in the mixed case.
BulkStore(n, mixed) ==
    [c \in Collections |->
        IF c = "users"
        THEN [i \in 1..n |->
                IF mixed /\ i % 2 = 0 THEN [name |-> "a", age |-> 40, tags |-> <<1, 2>>]
                ELSE [name |-> "a", age |-> 20, tags |-> <<1>>]]
        ELSE <<>>]

\* (Sequences, not sets: the values are of mixed types.)
BulkWheres ==
    << <<>>,
      << <<>> >>,
      << <<Query(<<WC("age", "==", 20)>>, <<>>, 0)>> >>,
      << <<Query(<<WC("age", ">", 30)>>, <<>>, 0)>> >>,
      << <<Query(<<WC("name", "==", "a")>>,
                 <<[Field |-> "age", Direction |-> Desc]>>, 0)>> >>,
      << <<Query(<<WP("age", "==", Provider(20, FALSE))>>, <<>>, 0)>> >>,
      << <<Query(<<WP("age", "==", Provider(20, TRUE))>>, <<>>, 0)>> >>,
      << <<Query(<<WC("age", "in", <<20, 40>>)>>, <<>>, 0)>> >>,
      << <<Query(<<WC("tags", "array-contains", 1)>>, <<>>, 0)>> >>,
      << <<Query(<<WC("tags", "array-contains-any", <<2, 3>>)>>, <<>>, 0)>> >>,
      << <<Query(<<WC("age", "=", 20)>>, <<>>, 0)>> >> >>

BulkUpdates ==
    << <<[Path |-> "age", Value |-> 30]>>,
       <<[Path |-> "name", Value |-> "b"]>>,
       <<[Path |-> "age", Value |-> 50]>> >>

BulkModels == {SetIDField(ZeroUser, id) : id \in {EmptyID, 1}}

InitBulk ==
    /\ \E n \in BulkSizes, mixed \in BOOLEAN : store = BulkStore(n, mixed)
    /\ pc = "idle"
    /\ InitCaller
    /\ InitHeap

\* client.RunTransaction(ctx, func(ctx, tx) ...) begins.
RunTransaction ==
    /\ ~tx.active
    /\ tx' = [active |-> TRUE, writes |-> <<>>]
    /\ UNCHANGED <<store, pc, op, recv, arg, ret, ext, rec, dest, loopVars>>

BulkRunTransaction ==
    /\ Callable
    /\ RunTransaction
    /\ UNCHANGED bindVars

BulkUpdate ==
    /\ Callable
    /\ \E db \in CallerDBs, model \in BulkModels,
          u \in 1..Len(BulkUpdates), w \in 1..Len(BulkWheres),
          storeOk \in BOOLEAN :
          Update(db, model, BulkUpdates[u], BulkWheres[w], storeOk)
    /\ UNCHANGED bindVars

NextBulk ==
    \/ BulkRunTransaction
    \/ BulkUpdate
    \/ UpdateQueryPage
    \/ UpdateCommit

SpecBulk == InitBulk /\ [][NextBulk]_vars

-----------------------------------------------------------------------------
(* By-query Update with transforms on the ordering field *)

\* The collection holds up to MaxTransformDocs documents; the loop is
\* followed for MaxRounds page queries.
MaxTransformDocs == 2
MaxRounds == 4

TransformWheres ==
    << << <<Query(<<WC("age", ">", 10)>>, <<>>, 0)>> >>,
       << <<Query(<<WC("name", "==", "a")>>,
                  <<[Field |-> "age", Direction |-> Asc]>>, 0)>> >>,
       << <<Query(<<WC("name", "==", "a")>>, <<>>, 0)>> >>,
       << <<Query(<<WC("age", ">=", 20)>>, <<>>, 0)>> >> >>

TransformUpdates ==
    << <<Increment("age", 1)>>,
       <<ServerTimestamp("age")>>,
       <<[Path |-> "age", Value |-> 50]>> >>

\* The collection as in the bulk case; in the stamped case an earlier
\* ServerTimestamp update has left its commit time in the first document.
TransformStore(n, mixed, stamped) ==
    [BulkStore(n, mixed) EXCEPT
        !.users = [i \in 1..n |->
                     IF stamped /\ i = 1
                     THEN [@[i] EXCEPT !.age = EarlierCommitTime] ELSE @[i]]]

InitTransform ==
    /\ \E n \in 0..MaxTransformDocs, mixed \in BOOLEAN, stamped \in BOOLEAN :
          store = TransformStore(n, mixed, stamped)
    /\ pc = "idle"
    /\ InitCaller
    /\ InitHeap

TransformUpdate ==
    /\ Callable
    /\ \E u \in 1..Len(TransformUpdates), w \in 1..Len(TransformWheres),
          storeOk \in BOOLEAN :
          Update(TestDB, ZeroUser, TransformUpdates[u], TransformWheres[w],
                 storeOk)
    /\ UNCHANGED bindVars

TransformPage ==
    /\ iters < MaxRounds
    /\ UpdateQueryPage

NextTransform ==
    \/ TransformUpdate
    \/ TransformPage
    \/ UpdateCommit

SpecTransform == InitTransform /\ [][NextTransform]_vars

-----------------------------------------------------------------------------
(* An application: one caller works on a small collection *)

\* Document identifiers the small collection uses.
MaxSmallID == 2
SmallIds == 1..MaxSmallID

CollectionOf(t) == CollectionName(Model(New(TestConnection), t))

\* The record type the application stores.
AppTypes == {t \in ModelTypes : CollectionOf(t) \in DOMAIN store}

\* The orchestrators the caller holds: one bound to its record type, and
\* inside the transaction function dbWithTx := db.WithTransaction(tx) too.
AppDBs ==
    LET plain == {Model(New(TestConnection), t) : t \in AppTypes}
    IN  plain \cup (IF tx.active
                    THEN {WithTransaction(db, "tx") : db \in plain} ELSE {})

\* The caller may call a handler: a transaction function that has buffered
\* MaxTxWrites writes returns.
AppCallable == Callable /\ Len(tx.writes) < MaxTxWrites

\* Whether the store answers a write: either way for a direct one; a write
\* in the transaction is only buffered and does not reach the store.
StoreAnswers(db) == IF HasTransaction(db.conn) THEN {TRUE} ELSE BOOLEAN

\* new(User) / new(Example) with fields set.
Record(t, ptr, id, name) ==
    [ZeroModel(t) EXCEPT !.ptr = ptr, !.ID = id, !.f.name = name]

\* Records passed by pointer, and copies passed by value: to Save without
\* an identifier, to GetByID and FindOne with one.
Records(t) ==
    {Record(t, TRUE, id, "a") : id \in {EmptyID} \cup SmallIds}

Copies(t) == {Record(t, FALSE, EmptyID, "a")}


\* fieldsToSave: none, present names, and names some mapping lacks.
FieldLists ==
    << <<>>, <<"name">>, <<"age">>, <<"name", "nick">>, <<"id">> >>

AppQueries ==
    << <<>>,
       <<Query(<<WC("name", "==", "a")>>, <<>>, 0)>>,
       <<Query(<<>>, <<[Field |-> DocumentID, Direction |-> Desc]>>, 1)>>,
       <<Query(<<WP("name", "==", Provider("b", FALSE))>>, <<>>, 0)>>,
       <<Query(<<WP("name", "==", Provider("b", TRUE))>>, <<>>, 0)>>,
       <<Query(<<WP("name", "==", Provider("a", FALSE))>>, <<>>, 0),
         Query(<<WC("name", "==", "a"),
                 WP("name", "==", Provider("a", FALSE))>>, <<>>, 0)>>,
       <<Query(<<WP("name", "==", Provider("a", FALSE)),
                 WC("name", "==", "a")>>, <<>>, 0),
         Query(<<WP("name", "==", Provider("a", FALSE)),
                 WP("name", "==", Provider("b", TRUE)),
                 WP("name", "==", Provider("a", FALSE))>>, <<>>, 0),
         Query(<<WP("name", "==", Provider("a", FALSE))>>, <<>>, 0)>>,
       <<Query(<<WC("name", "=", "a")>>, <<>>, 0)>> >>

\* Spec lists for FindOne: those above, and lists whose Limit is larger than
\* one, the unlimited sentinel, or given twice.
FindOneQueries ==
    AppQueries \o
    << <<Query(<<>>, <<>>, 2)>>,
       <<Query(<<>>, <<>>, QueryLimitUnlimited)>>,
       <<Query(<<WC("name", "==", "a")>>, <<>>, 1), Query(<<>>, <<>>, 2)>> >>

AppWheres ==
    << <<>>, << <<>> >>, <<AppQueries[2]>>, <<AppQueries[4]>>,
       <<AppQueries[5]>>, <<AppQueries[6]>>, <<AppQueries[7]>>,
       <<AppQueries[8]>>,
       << <<Query(<<WC("name", "==", "a")>>, <<>>, 1)>> >> >>

AppUpdates(t) ==
    << <<[Path |-> "name", Value |-> "b"]>> >>
    \o (IF t = "Example" THEN <<>>
        ELSE << <<ServerTimestamp("age")>> >>)

\* What a destination slice may hold before FindAll.
Slices(t) == {<<>>, <<Record(t, TRUE, MaxSmallID, "old")>>}

\* Identifiers NewDoc() may draw: none that the collection or the
\* transaction already uses.
FreshIDs(col) ==
    {id \in SmallIds :
        /\ id \notin DOMAIN store[col]
        /\ \A i \in 1..Len(tx.writes) :
              ~(tx.writes[i].col = col /\ tx.writes[i].id = id)}

Init ==
    /\ \E t \in {"Example", "README.User"} :
          store = [c \in {CollectionOf(t)} |-> <<>>]
    /\ pc = "idle"
    /\ InitCaller
    /\ InitHeap

AppRunTransaction ==
    /\ AppCallable
    /\ RunTransaction
    /\ UNCHANGED bindVars

\* The transaction function returned nil: the buffered writes are committed
\* together, or none is.
TxCommit ==
    /\ Callable
    /\ tx.active
    /\ LET done == ApplyWrites([store |-> store, err |-> Nil], tx.writes, 1)
       IN  store' = IF done.err = Nil THEN done.store ELSE store
    /\ tx' = [active |-> FALSE, writes |-> <<>>]
    /\ UNCHANGED <<pc, op, recv, arg, ret, ext, rec, dest, loopVars>>
    /\ UNCHANGED bindVars

\* The transaction function returned an error: the transaction is aborted.
TxRollback ==
    /\ Callable
    /\ tx.active
    /\ tx' = [active |-> FALSE, writes |-> <<>>]
    /\ UNCHANGED <<store, pc, op, recv, arg, ret, ext, rec, dest, loopVars>>
    /\ UNCHANGED bindVars

CallGetByID ==
    /\ AppCallable
    /\ \E db \in AppDBs, t \in AppTypes :
          \E model \in Records(t) \cup {Record(t, TRUE, 1, "b"),
                                         Record(t, FALSE, 1, "b")},
             storeOk \in BOOLEAN :
              GetByID(db, model, storeOk)
    /\ UNCHANGED bindVars

\* A destination that FindAll refuses is passed empty: the call does not
\* look at what it holds.  One whose type is refused is passed with the
\* first spec list only: the call returns before it looks at the specs.
CallFindAll ==
    /\ AppCallable
    /\ \E db \in AppDBs, t \in AppTypes, kind \in DestKinds :
          \E q \in IF DestTypeErr(kind) = Nil THEN 1..Len(AppQueries)
                   ELSE {1},
             storeOk \in IF DestTypeErr(kind) = Nil THEN BOOLEAN
                         ELSE {TRUE} :
              \E into \in IF kind = "*[]T" THEN Slices(t) ELSE {<<>>} :
                  FindAll(db, AppQueries[q], t, kind, into, storeOk)
    /\ UNCHANGED bindVars

CallFindOne ==
    /\ AppCallable
    /\ \E db \in AppDBs, t \in AppTypes, q \in 1..Len(FindOneQueries) :
          \E model \in {ZeroModel(t), Record(t, TRUE, 1, "b")}
                       \cup {Record(t, FALSE, 1, "b")},
             storeOk \in BOOLEAN :
              FindOne(db, FindOneQueries[q], model, storeOk)
    /\ UNCHANGED bindVars

CallSave ==
    /\ AppCallable
    /\ \E db \in AppDBs, t \in AppTypes, fl \in 1..Len(FieldLists) :
          \E model \in Records(t) \cup Copies(t),
             storeOk \in StoreAnswers(db) :
              \E newID \in IF GetID(model) = EmptyID /\ fl = 1
                           THEN FreshIDs(CollectionOf(t)) ELSE {EmptyID} :
                  Save(db, model, FieldLists[fl], newID, storeOk)
    /\ UNCHANGED bindVars

\* By ID (no where-spec is passed), or by query.
CallUpdate ==
    /\ AppCallable
    /\ \E db \in AppDBs, t \in AppTypes, id \in {EmptyID} \cup SmallIds :
          \E u \in 1..Len(AppUpdates(t)), storeOk \in StoreAnswers(db),
             w \in IF id = EmptyID THEN 1..Len(AppWheres) ELSE {1} :
              Update(db, Record(t, TRUE, id, ""), AppUpdates(t)[u],
                     AppWheres[w], storeOk)
    /\ UNCHANGED bindVars

\* Delete is also called on an orchestrator no model was bound to, and with
\* a record of another type than the bound one.
CallDelete ==
    /\ AppCallable
    /\ \E db \in AppDBs \cup {New(TestConnection)}, t \in ModelTypes,
          id \in {EmptyID} \cup SmallIds :
          \E storeOk \in StoreAnswers(db) :
              Delete(db, Record(t, TRUE, id, ""), storeOk)
    /\ UNCHANGED bindVars

\* The caller has looked at the outcome of its last call and goes on.
Forget ==
    /\ pc = "idle"
    /\ op # Nil
    /\ op' = Nil
    /\ recv' = TestDB
    /\ arg' = NoArgs
    /\ ret' = Nil
    /\ ext' = NoCalls
    /\ rec' = ZeroUser
    /\ dest' = <<>>
    /\ call' = [db |-> TestDB, updates |-> <<>>, q |-> CollectionQuery("users")]
    /\ lastDoc' = NilPtr
    /\ docs' = <<>>
    /\ commits' = <<>>
    /\ iters' = 0
    /\ matched0' = {}
    /\ UNCHANGED <<store, tx, pc>>
    /\ UNCHANGED bindVars

Next ==
    \/ AppRunTransaction
    \/ TxCommit
    \/ TxRollback
    \/ CallGetByID
    \/ CallFindAll
    \/ CallFindOne
    \/ CallSave
    \/ CallUpdate
    \/ CallDelete
    \/ UpdateQueryPage
    \/ UpdateCommit
    \/ Forget

Spec == Init /\ [][Next]_vars

-----------------------------------------------------------------------------
(* Properties of the by-query Update loop *)

Ceil(n, b) == (n + b - 1) \div b

UpdatedPaths(updates) == {updates[i].Path : i \in 1..Len(updates)}

\* The updates leave the fields that order the query's result alone.
StableOrder == UpdatedPaths(call.updates) \cap OrderFields(call.q) = {}

TimesCommitted(d) == Cardinality({i \in 1..Len(commits) : d \in commits[i]})

IsUpdated(col, d, updates) ==
    \A i \in 1..Len(updates) : store[col][d][updates[i].Path] = updates[i].Value

ByQueryReturnedOk == op = "UpdateByQuery" /\ pc = "idle" /\ ret = Nil

\* C1: a by-query Update without transaction over a stably ordered result of
\* N documents with batch size B never commits a document twice, returns
\* after exactly ceil(N/B) commits, and then every document that matched at
\* the start has been committed exactly once and carries the updates.
C1_BulkUpdateExactlyOnce ==
    (op = "UpdateByQuery" /\ ~HasTransaction(call.db.conn) /\ StableOrder) =>
        /\ \A d \in matched0 : TimesCommitted(d) <= 1
        /\ Len(commits) <= Ceil(Cardinality(matched0), call.db.updateBatchSize)
        /\ ByQueryReturnedOk =>
             /\ Len(commits) =
                   Ceil(Cardinality(matched0), call.db.updateBatchSize)
             /\ \A d \in matched0 :
                   /\ TimesCommitted(d) = 1
                   /\ IsUpdated(call.q.col, d, call.updates)

\* C2 as stated: the loop has run at most ceil(N/B) iterations when a
\* by-query Update over a stably ordered result returns.
C2_WithinCeilIterations ==
    (ByQueryReturnedOk /\ StableOrder) =>
        iters <= Ceil(Cardinality(matched0), call.db.updateBatchSize)

-----------------------------------------------------------------------------
(* Properties of the binding operations *)

\* C3: the instance SetUpdateBatchSize(n) returns reports batch size n, and
\* an instance obtained without SetUpdateBatchSize reports 100.
C3_BatchSizeConfigurable ==
    \A c \in Callers :
        /\ (cpc[c] = "idle" /\ cop[c].name = "SetUpdateBatchSize") =>
              GetUpdateBatchSize(dbs[cop[c].ret]) = cop[c].arg
        /\ (cpc[c] = "idle" /\ cop[c].name # "SetUpdateBatchSize") =>
              GetUpdateBatchSize(dbs[cop[c].ret]) = DefaultUpdateBatchSize

\* C4: whatever the interleaving of Model, WithConnection, WithTransaction
\* and SetUpdateBatchSize calls, as long as the callers apply these methods
\* only (no in-place setter), the base instance and its connection keep
\* the configuration they were built with, and an instance returned to a
\* caller carries no transaction and no model of another caller.
C4_BindingIsNonMutating ==
    setters = 0 =>
        /\ dbs[BasePtr] = New(BasePtr)
        /\ conns[BasePtr] = NewConnection("client", Nil)
        /\ ~HasTransaction(conns[dbs[BasePtr].conn])
        /\ \A c \in Callers : \A db \in held[c] :
              /\ conns[dbs[db].conn].transaction \in {Nil, CallerTx(c)}
              /\ dbs[db].modelType \in {Nil} \cup supplied[c]

C4_Witness ==
    /\ setters = 0
    /\ \E db \in held[1] : conns[dbs[db].conn].transaction = CallerTx(1)
    /\ \E db \in held[2] : dbs[db].modelType = "Example"
    /\ \A c \in Callers : cpc[c] = "idle"
    /\ cop[1].name = "WithTransaction" /\ cop[1].recv = BasePtr
    /\ cop[2].name = "Model" /\ cop[2].recv = BasePtr

-----------------------------------------------------------------------------
(* Properties of the handlers under a transaction and of their errors *)

\* The where-spec of the call is present and non-empty.
HasWhere == Len(arg.queries) > 0 /\ Len(arg.queries[1]) > 0

\* C5: on an orchestrator with an active transaction, no step of GetByID,
\* FindOne, FindAll, Save, Update or Delete reads or writes the store
\* outside the transaction, so the store is as it was whatever the handler
\* did.
C5_EverythingThroughTransaction ==
    [][(op' # Nil /\ HasTransaction(recv'.conn))
          => /\ store' = store
             /\ ext'.reads = 0
             /\ ext'.writes = 0]_vars

\* C6: a by-query Update (empty ID, non-empty where-spec) called under a
\* transaction returns an error and commits no write, whatever the query
\* returns.
C6_ByQueryUpdateUnderTransactionFails ==
    (/\ op = "UpdateByQuery"
     /\ pc = "idle"
     /\ HasTransaction(recv.conn)
     /\ HasWhere)
        => /\ ret # Nil
           /\ commits = <<>>
           /\ ext.writes = 0

PreconditionErrors ==
    {NoModelSet, "ID cannot be empty", "ID cannot be empty for delete",
     "cannot update fields on a record with no ID",
     "either ID or query conditions must be provided",
     "transactional batch updates are not supported"}

\* C7: a call that ends with a precondition error has made no external
\* call: no store read, no store write, no value provider resolution.
C7_PreconditionErrorsBeforeAnyCall ==
    (op # Nil /\ ret \in PreconditionErrors) => ext = NoCalls

-----------------------------------------------------------------------------
(* Properties of Save *)

\* The step is a call of Save that returned nil.
SaveSucceeds == op = Nil /\ op' = "Save" /\ ret' = Nil

\* Collection S is as before but for document id, which holds data.
OnlyDocSet(S0, S1, id, data) ==
    /\ DOMAIN S1 = DOMAIN S0 \cup {id}
    /\ S1[id] = data
    /\ \A k \in DOMAIN S0 \ {id} : S1[k] = S0[k]

\* What GetByID with identifier id decodes from collection S.
Retrieved(t, S, id) == DataTo(Record(t, TRUE, id, ""), S[id])

\* C8 as claimed: after a successful Save without a field list the store
\* holds, at the record's identifier (generated and non-empty if it was
\* empty, unchanged otherwise), a document equal to the record's field
\* mapping, which GetByID returns, and no other document was created or
\* modified.
C8_SaveStoresTheRecord ==
    [][(SaveSucceeds /\ Len(arg'.fields) = 0)
          => LET col == CollectionOf(rec'.type)
             IN  /\ rec'.ID # EmptyID
                 /\ arg'.model.ID # EmptyID => rec'.ID = arg'.model.ID
                 /\ OnlyDocSet(store[col], store'[col], rec'.ID,
                               StructToMap(rec'))
                 /\ Retrieved(rec'.type, store'[col], rec'.ID).f = rec'.f]_vars

\* The identifier Save wrote at: the record's, or the generated one.
SavedAt(id) ==
    /\ id # EmptyID
    /\ IF arg'.model.ID # EmptyID THEN id = arg'.model.ID /\ rec' = arg'.model
       ELSE rec' = IF arg'.model.ptr THEN [arg'.model EXCEPT !.ID = id]
                   ELSE arg'.model

\* C8 amended: without a transaction, a successful Save without a field list
\* writes at the record's identifier (a generated, non-empty and unused one
\* if it was empty, injected into a record passed by pointer) a document
\* equal to the field mapping the record had when Save was called, which
\* GetByID returns, and changes no other document; with a transaction the
\* store is unchanged and that write is buffered in the transaction.
C8_SaveWritesTheMappingAtCall ==
    [][(SaveSucceeds /\ Len(arg'.fields) = 0)
          => LET m == arg'.model
                 col == CollectionOf(m.type)
             IN  IF HasTransaction(recv'.conn)
                 THEN /\ store' = store
                      /\ \E id \in SmallIds :
                            /\ SavedAt(id)
                            /\ tx'.writes =
                                 Append(tx.writes,
                                        TxWrite("set", col, id, StructToMap(m)))
                 ELSE /\ tx' = tx
                      /\ \E id \in DOMAIN store'[col] :
                            /\ SavedAt(id)
                            /\ m.ID = EmptyID => id \notin DOMAIN store[col]
                            /\ OnlyDocSet(store[col], store'[col], id,
                                          StructToMap(m))
                            /\ Retrieved(m.type, store'[col], id).f = m.f]_vars

\* A record without identifier was saved next to an existing document and
\* carries the generated identifier.
C8_Witness ==
    /\ op = "Save"
    /\ ret = Nil
    /\ Len(arg.fields) = 0
    /\ ~HasTransaction(recv.conn)
    /\ arg.model.ID = EmptyID
    /\ rec.ID # EmptyID
    /\ Cardinality(DOMAIN store[CollectionOf(rec.type)]) = 2
    /\ store[CollectionOf(rec.type)][rec.ID] = StructToMap(arg.model)

\* The listed fields with the record's values over the other fields of doc.
WithListed(doc, data, fields) ==
    [k \in DOMAIN doc \cup {fields[i] : i \in 1..Len(fields)} |->
        IF \E i \in 1..Len(fields) : fields[i] = k THEN data[k] ELSE doc[k]]

\* C9: a Save with a field list of which a name is absent from the record's
\* field mapping returns an error and writes nothing, neither to the store
\* nor into the transaction; when every name is present and Save succeeds,
\* exactly the listed fields of the document take the record's values (in
\* the store, or by the update buffered in the transaction) and nothing else
\* changes.
C9_PartialSaveListedFieldsOnly ==
    [][(op = Nil /\ op' = "Save" /\ Len(arg'.fields) > 0)
          => LET m == arg'.model
                 col == CollectionOf(m.type)
                 data == StructToMap(m)
                 fields == arg'.fields
             IN  IF \E i \in 1..Len(fields) : fields[i] \notin DOMAIN data
                 THEN /\ ret' # Nil
                      /\ store' = store
                      /\ tx' = tx
                      /\ ext'.writes = 0 /\ ext'.txWrites = 0
                 ELSE ret' = Nil =>
                      IF HasTransaction(recv'.conn)
                      THEN /\ store' = store
                           /\ Len(tx'.writes) = Len(tx.writes) + 1
                           /\ LET w == tx'.writes[Len(tx'.writes)]
                              IN  /\ w.kind = "update" /\ w.col = col
                                  /\ w.id = m.ID
                                  /\ Len(w.data) = Len(fields)
                                  /\ \A i \in 1..Len(fields) :
                                        /\ w.data[i].Path = fields[i]
                                        /\ w.data[i].Value = data[fields[i]]
                      ELSE /\ tx' = tx
                           /\ m.ID \in DOMAIN store[col]
                           /\ OnlyDocSet(store[col], store'[col], m.ID,
                                         WithListed(store[col][m.ID], data,
                                                    fields))]_vars

\* A partial Save of the name succeeded on a document whose age differs
\* from the record's, and the document kept its age.
C9_Witness ==
    /\ op = "Save"
    /\ ret = Nil
    /\ arg.fields = <<"name">>
    /\ ~HasTransaction(recv.conn)
    /\ store[CollectionOf(rec.type)][rec.ID].name = arg.model.f.name
    /\ "age" \in DOMAIN arg.model.f
    /\ store[CollectionOf(rec.type)][rec.ID].age # arg.model.f.age

-----------------------------------------------------------------------------
(* Properties of FindAll *)

\* FindAll returned nil to a caller whose slice held elements of type t.
FindAllSucceeded == op = "FindAll" /\ ret = Nil

\* The documents of collection S that the specs of the call select, in the
\* order the store returns them.
Selected(S, queries) ==
    RunQuery(S, ApplyQueries(CollectionQuery(CollectionOf(arg.model.type)),
                             queries).q)

\* elems holds one element per snapshot, in order, with its identifier set
\* and the fields of its document.
ElementPerDocument(elems, snaps) ==
    /\ Len(elems) = Len(snaps)
    /\ \A i \in 1..Len(snaps) :
          /\ elems[i].ID = snaps[i].id
          /\ \A k \in DOMAIN elems[i].f : elems[i].f[k] = snaps[i].data[k]

\* elems lists every document of collection S once.
EveryDocument(elems, S) ==
    /\ Len(elems) = Cardinality(DOMAIN S)
    /\ {elems[i].ID : i \in 1..Len(elems)} = DOMAIN S

\* C10 as claimed: after a successful FindAll the destination is exactly the
\* documents the query returned, in order, whatever it held before; with no
\* spec it holds every document of the collection.
C10_DestinationReplaced ==
    FindAllSucceeded
        => LET S == store[CollectionOf(arg.model.type)]
           IN  /\ ElementPerDocument(dest, Selected(S, arg.queries))
               /\ arg.queries = <<>> => EveryDocument(dest, S)

\* C10 amended: after a successful FindAll the destination is what it held
\* before the call followed by the documents the query returned, in order,
\* one element per document with its identifier set; with no spec the
\* elements added are every document of the collection.
C10_DestinationAppendedTo ==
    FindAllSucceeded
        => LET S == store[CollectionOf(arg.model.type)]
               n == Len(arg.dest)
               added == SubSeq(dest, n + 1, Len(dest))
           IN  /\ Len(dest) >= n
               /\ SubSeq(dest, 1, n) = arg.dest
               /\ ElementPerDocument(added, Selected(S, arg.queries))
               /\ arg.queries = <<>> => EveryDocument(added, S)

\* FindAll without spec on a collection of two documents, into a slice that
\* held an element.
C10_Witness ==
    /\ FindAllSucceeded
    /\ arg.queries = <<>>
    /\ Len(arg.dest) = 1
    /\ Len(dest) = 3
    /\ dest[2].ID = 1 /\ dest[3].ID = 2

-----------------------------------------------------------------------------
(* FindOne *)

\* FindOne returned after its query was executed.
FindOneRan ==
    /\ op = "FindOne"
    /\ ret \in {Nil, "no document found", "failed to parse document"}

\* Every document the specs of the call select, whatever Limit they carry,
\* in the order the store returns them.
Matching(S, queries) ==
    RunQuery(S, Limit(ApplyQueries(
                        CollectionQuery(CollectionOf(arg.model.type)),
                        queries).q, NoLimit))

\* C11: whatever Limit the specs carry, the query FindOne executes returns
\* at most one document (the first matching one in store order); that
\* document is decoded into the destination with its identifier set, and
\* FindOne returns an error exactly when no document matches.
C11_FindOneLimitOne ==
    FindOneRan
        => LET all == Matching(store[CollectionOf(arg.model.type)],
                               arg.queries)
           IN  /\ ext.fetched = Min(1, Len(all))
               /\ ret = "no document found" <=> Len(all) = 0
               /\ ret = Nil => ElementPerDocument(<<rec>>, <<all[1]>>)

\* FindOne with a spec of Limit 2 on a collection of two documents: one
\* document is fetched, the first.
C11_Witness ==
    /\ op = "FindOne" /\ ret = Nil
    /\ Len(arg.queries) = 1 /\ arg.queries[1].Limit = 2
    /\ Cardinality(DOMAIN store[CollectionOf(arg.model.type)]) = 2
    /\ ext.fetched = 1
    /\ rec.ID = 1

-----------------------------------------------------------------------------
(* IsNotFoundError *)

\* The errors of the model that are gRPC status errors of the store; every
\* other error is built by fmt.Errorf or errors.New.
StatusErrors == {"NotFound", "Unavailable"}

\* status.Code(err): OK for nil, the code of a status error, and Unknown for
\* an error that carries no status.
StatusCode(err) ==
    IF err = Nil THEN "OK"
    ELSE IF err \in StatusErrors THEN err
    ELSE "Unknown"

\* IsNotFoundError(err)
IsNotFoundError(err) ==
    IF err = Nil THEN FALSE
    ELSE StatusCode(err) = "NotFound" \/ StatusCode(err) = "Unknown"

\* GetByID found no document at the identifier, or FindOne's query matched
\* no document.
NotFoundOutcome ==
    \/ op = "GetByID" /\ ret = "NotFound"
    \/ op = "FindOne" /\ ret = "no document found"

\* GetByID or FindOne failed for another reason: a precondition, a value
\* provider that failed, a document the record cannot take, or a store that
\* did not answer.
OtherFailure ==
    /\ op \in {"GetByID", "FindOne"}
    /\ pc = "idle"
    /\ ret \in {NoModelSet, "ID cannot be empty", "failed to get value",
                "failed to parse document", "Unavailable"}

\* C12: IsNotFoundError tells the not-found outcome of GetByID and FindOne
\* from their other failures: it is true of the error returned when the
\* document is absent or the query has no match, and false of the errors of
\* the other kinds.
C12_NotFoundDistinguishable ==
    /\ NotFoundOutcome => IsNotFoundError(ret)
    /\ OtherFailure => ~IsNotFoundError(ret)

-----------------------------------------------------------------------------
(* By-query Update: a batch commit fails *)

\* The documents some committed page of the call held.
Committed == UNION {commits[i] : i \in 1..Len(commits)}

\* C13: when the commit of page k fails the by-query Update has returned
\* the error after k page queries and k commits and issues no more; the
\* documents of pages 1..k-1 carry the updates, the documents of page k are
\* as the page query read them, and a document in no committed page is as
\* it was before the call.
C13_FailedCommitStopsTheLoop ==
    (op = "UpdateByQuery" /\ ret = "batch commit failed") =>
        LET k == Len(commits) + 1
            S == store[call.q.col]
        IN  /\ pc = "idle"
            /\ iters = k /\ ext.reads = k /\ ext.writes = k
            /\ \A d \in Committed : IsUpdated(call.q.col, d, call.updates)
            /\ \A i \in 1..Len(docs) : S[docs[i].id] = docs[i].data
            /\ \E mixed \in BOOLEAN :
                  \A d \in DOMAIN S \ Committed :
                      S[d] = BulkStore(Cardinality(DOMAIN S), mixed).users[d]

\* The commit of the second page failed: the first page of 100 documents is
\* updated, document 101 is not.
C13_Witness ==
    /\ op = "UpdateByQuery" /\ ret = "batch commit failed"
    /\ Len(commits) = 1
    /\ commits[1] = 1..DefaultUpdateBatchSize
    /\ call.updates[1].Path = "name"
    /\ docs[1].id = DefaultUpdateBatchSize + 1
    /\ store.users[1].name = "b"
    /\ store.users[DefaultUpdateBatchSize + 1].name = "a"

-----------------------------------------------------------------------------
(* Identifiers at which no document exists *)

\* A document exists at identifier id of the collection of records of type
\* t (a collection nothing was written to holds no document).
Stored(t, id) ==
    /\ CollectionOf(t) \in DOMAIN store
    /\ id \in DOMAIN store[CollectionOf(t)]

\* This step is a by-identifier Update of a record whose identifier names
\* no document of its collection.
UpdatesMissing ==
    /\ op = Nil /\ op' = "UpdateByID"
    /\ ~Stored(arg'.model.type, arg'.model.ID)

\* This step is a Delete of a record whose identifier names no document of
\* its collection.
DeletesMissing ==
    /\ op = Nil /\ op' = "Delete"
    /\ arg'.model.ID # EmptyID
    /\ ~Stored(arg'.model.type, arg'.model.ID)

\* This step is a successful Delete of a record whose identifier names a
\* document of its collection.
DeletesExisting ==
    /\ op = Nil /\ op' = "Delete"
    /\ Stored(arg'.model.type, arg'.model.ID)
    /\ ret' = Nil

\* This step is a GetByID of a record whose identifier names no document.
GetsMissing ==
    /\ op = Nil /\ op' = "GetByID"
    /\ arg'.model.ID # EmptyID
    /\ ~Stored(arg'.model.type, arg'.model.ID)

\* C14: at an identifier with no document a by-identifier Update returns an
\* error and a Delete returns none, and both leave the store unchanged;
\* after a successful Delete of an existing document GetByID with the same
\* identifier returns an error: the Delete leaves no document at the
\* identifier, and GetByID at an identifier with no document returns an
\* error.
C14_MissingDocument ==
    [][ /\ UpdatesMissing => ret' # Nil /\ store' = store
        /\ DeletesMissing => ret' = Nil /\ store' = store
        /\ DeletesExisting =>
              arg'.model.ID
                  \notin DOMAIN store'[CollectionOf(arg'.model.type)]
        /\ GetsMissing => ret' # Nil ]_vars

-----------------------------------------------------------------------------
(* Value providers *)

\* The positions <<spec, filter>> of the filters with a value provider, from
\* filter i of spec k on, in spec order then filter order, up to and
\* including the first whose provider fails.
RECURSIVE Asked(_, _, _)
Asked(queries, k, i) ==
    IF k > Len(queries) THEN <<>>
    ELSE IF i > Len(queries[k].Where) THEN Asked(queries, k + 1, 1)
    ELSE LET p == queries[k].Where[i].ValueProvider
         IN  IF p = NilPtr THEN Asked(queries, k, i + 1)
             ELSE IF p.fails THEN << <<k, i>> >>
             ELSE << <<k, i>> >> \o Asked(queries, k, i + 1)

\* The last provider asked failed.
LastFails(queries, asked) ==
    /\ Len(asked) > 0
    /\ LET pos == asked[Len(asked)]
       IN  queries[pos[1]].Where[pos[2]].ValueProvider.fails

\* The spec list the predicate builder was applied to by the call.
AppliedQueries == IF op = "UpdateByQuery" THEN arg.queries[1] ELSE arg.queries

\* The call has applied the predicate builder.
PredicateBuilderApplied ==
    \/ op = "FindOne"
    \/ op = "FindAll" /\ DestTypeErr(arg.kind) = Nil
    \/ op = "UpdateByQuery" /\ HasWhere

\* C15: a call that applies the predicate builder has resolved each value
\* provider of its spec list once, in spec order then filter order, up to
\* the first that fails, however often the same list was applied before;
\* when one fails the call has returned the error and has issued no store
\* read and no store write.
C15_ProvidersResolvedOnceInOrder ==
    PredicateBuilderApplied =>
        LET asked == Asked(AppliedQueries, 1, 1)
        IN  /\ ext.resolved = asked
            /\ ext.resolves = Len(asked)
            /\ LastFails(AppliedQueries, asked) =>
                  /\ pc = "idle"
                  /\ ret = "failed to get value"
                  /\ ext.reads = 0 /\ ext.txReads = 0 /\ ext.fetched = 0
                  /\ ext.writes = 0 /\ ext.txWrites = 0
                  /\ commits = <<>>

\* A by-query Update whose spec list holds five providers stopped at the
\* third, which failed, of the second spec.
C15_Witness ==
    /\ op = "UpdateByQuery" /\ HasWhere
    /\ Len(arg.queries[1]) = 3
    /\ ext.resolved = << <<1, 1>>, <<2, 1>>, <<2, 2>> >>
    /\ ret = "failed to get value"
    /\ DOMAIN store[CollectionOf(arg.model.type)] # {}

-----------------------------------------------------------------------------
(* By-query Update: updates that change the ordering field *)

\* C16: between a commit and the next page query the cursor is the last
\* snapshot of the committed page as the page query read it, while the
\* stored document already carries the updates (the execution the claim
\* speaks of is the one C16_Witness reaches).
C16_CursorIsPreUpdateSnapshot ==
    (op = "UpdateByQuery" /\ pc = "page" /\ lastDoc # NilPtr) =>
        /\ lastDoc = docs[Len(docs)]
        /\ store[call.q.col][lastDoc.id] =
              ApplyUpdates(lastDoc.data, call.updates, 1)

\* A by-query Update without transaction whose updates set the field of
\* its inequality filter returned no error after it committed a matching
\* document twice: the cursor held the value the field had before.
C16_Witness ==
    /\ ByQueryReturnedOk
    /\ ~HasTransaction(call.db.conn)
    /\ UpdatedPaths(call.updates) \cap OrderFields(call.q) # {}
    /\ \E d \in matched0 : TimesCommitted(d) = 2

-----------------------------------------------------------------------------
(* By-query Update: termination *)

\* C17, in the form a finite run refutes: the cursor only moves forward, so
\* a by-query Update without transaction that ends for the reason claimed
\* finds a document at most once with the value it had and once with the
\* value the update gave it; no document is committed a third time, and the
\* loop makes at most 2 * N + 1 page queries over N matching documents.
C17_UpdatedDocumentsAreLeftBehind ==
    (op = "UpdateByQuery" /\ ~HasTransaction(call.db.conn)) =>
        /\ \A d \in DOMAIN store[call.q.col] : TimesCommitted(d) <= 2
        /\ iters <= 2 * Cardinality(matched0) + 1

-----------------------------------------------------------------------------
(* By-query Update: the Limit of the where-spec *)

\* C18: a by-query Update without transaction whose where-spec carries a
\* positive Limit L has, when it returns no error, updated at most L
\* documents.
C18_SpecLimitBoundsTheUpdate ==
    (ByQueryReturnedOk /\ ~HasTransaction(call.db.conn)
       /\ call.q.limit # NoLimit)
        => Cardinality(Committed) <= call.q.limit

-----------------------------------------------------------------------------
(* Save: the record after a failed call *)

\* C19: a Save that returns an error leaves the caller's record as it was
\* passed; a create whose store write fails leaves no generated identifier
\* on it.
C19_FailedSaveLeavesTheRecord ==
    [][ (op = Nil /\ op' = "Save" /\ ret' # Nil) => rec' = arg'.model ]_vars

-----------------------------------------------------------------------------
(* Delete: the collection it targets *)

\* This step is a Delete outside a transaction of a record with an
\* identifier; the store answers.
DeletesDirectly ==
    /\ op = Nil /\ op' = "Delete"
    /\ ~HasTransaction(recv'.conn)
    /\ arg'.model.ID # EmptyID
    /\ ret' # "Unavailable"

\* C20: Delete(record), on an orchestrator bound to any model or to none,
\* returns no error and removes the document with the record's identifier
\* from the collection of the record's type; every other document, of this
\* and of any other collection, stays.
C20_DeleteTargetsTheRecordsCollection ==
    [][ DeletesDirectly =>
          /\ ret' = Nil
          /\ \A c \in DOMAIN store :
                store'[c] = IF c = CollectionOf(arg'.model.type)
                            THEN DeleteDoc(store[c], arg'.model.ID)
                            ELSE store[c] ]_vars

====
